---- MODULE Spec2Model ----
(***************************************************************************)
(* Job orchestration of the website cloner: the in-memory job store        *)
(* (jobs_db), the progress channel (ConnectionManager), the detached       *)
(* process_clone_job task and the retry loop of WebScrape.scrape_website.  *)
(* One action is one run of a handler, or one stretch of a coroutine       *)
(* between two suspension points (await).                                  *)
(***************************************************************************)
EXTENDS Integers, Sequences, FiniteSets, TLC

\* ---------------------------------------------------------------- bounds
MaxJobs == 2
MaxWs == 2
\* Submissions in the runs that are checked for liveness.
MaxLiveJobs == 1

\* scrape_website(self, url, max_retries: int = 3)
max_retries == 3

JobIds == 1..MaxJobs
WsIds == 1..MaxWs

\* ------------------------------------------------------------- constants
\* Python's None, for the Optional[str] fields and for self.browser/context.
None == "None"

PENDING == "pending"
SCRAPING == "scraping"
PROCESSING == "processing"
GENERATING == "generating"
COMPLETED == "completed"
FAILED == "failed"

CloneStatus == {PENDING, SCRAPING, PROCESSING, GENERATING, COMPLETED, FAILED}

\* The URL strings urlparse is modelled on, and the ones clients submit.
UrlShapes == {"https://example.com", "not-a-url", "https://", "//example.com"}
Urls == {"https://example.com", "not-a-url"}

urlparse(u) ==
    CASE u = "https://example.com" -> [scheme |-> "https", netloc |-> "example.com"]
      [] u = "not-a-url" -> [scheme |-> "", netloc |-> ""]
      [] u = "https://" -> [scheme |-> "https", netloc |-> ""]
      [] u = "//example.com" -> [scheme |-> "", netloc |-> "example.com"]

\* Mutant of _is_valid_url: the URL is not checked.
_is_valid_url_unchecked(u) == TRUE

\* all([result.scheme, result.netloc])
_is_valid_url(u) == urlparse(u).scheme # "" /\ urlparse(u).netloc # ""

\* The attributes the ScrapingResult dataclass defines.
ScrapingResultFields ==
    {"url", "screenshots", "dom_structure", "extracted_css", "typography",
     "color_palette", "layout_info", "assets", "metadata", "success",
     "error_message"}

\* The profile shape of the scraper version main.py is written against: the
\* dataclass fields plus the four attributes main.py reads beyond them.
EnhancedResultFields ==
    ScrapingResultFields \cup
    {"video_recording", "computed_styles", "visual_elements", "interaction_states"}

\* The attributes process_scraping_data reads from the scraping result.
ProcessReadFields ==
    {"url", "screenshots", "video_recording", "dom_structure", "computed_styles",
     "visual_elements", "color_palette", "typography", "layout_info", "assets",
     "metadata", "interaction_states"}

\* The attributes the result assembly of process_clone_job reads, in order.
AssemblyReadFields ==
    {"color_palette", "assets", "typography", "screenshots", "video_recording",
     "layout_info", "interaction_states", "visual_elements", "metadata"}

\* str(e) of the exceptions the model raises.
KeyErrorMsg == "KeyError: job_id"
AttributeErrorMsg == "AttributeError: ScrapingResult has no attribute"
SendErrorMsg == "send_json failed"
InitErrorMsg == "browser initialization failed"
\* str(e) of what _initialize_browser lets through: the text of the
\* exception, or "" for one that was raised without arguments.
InitErrorMsgs == {InitErrorMsg, ""}
PerformErrorMsg == "page load failed"
NoContextMsg == "Browser context is not initialized"

\* What generate_html_with_llm returns.
LlmHtml == "<html>generated</html>"
FallbackHtml == "<!DOCTYPE html><html>fallback</html>"

\* ------------------------------------------------------------------ state
VARIABLES
    jobs_db,             \* dict job_id -> CloneJob
    active_connections,  \* manager.active_connections: dict job_id -> WebSocket
    ws_state,            \* per websocket: "idle", "open", "closed" (peer gone), "done"
    ws_job,              \* per websocket: the job_id of its endpoint's path
    received,            \* per websocket: the events the client was delivered
    pc,                  \* per job: position of its process_clone_job task
    task_url,            \* per job: the url argument of the task
    exc,                 \* per job: str(e) of the exception in flight
    attempt,             \* per job: loop variable of scrape_website
    result,              \* per job: local of scrape_website
    ret,                 \* per job: the value scrape_website is returning
    scraping_result,     \* per job: local of process_clone_job
    generated_html,      \* per job: local of process_clone_job
    self_browser,        \* scraper.browser (one WebScrape instance per process)
    self_context,        \* scraper.context
    result_fields        \* the attributes a successful scraping result defines

vars == <<jobs_db, active_connections, ws_state, ws_job, received, pc, task_url,
          exc, attempt, result, ret, scraping_result, generated_html, self_browser,
          self_context, result_fields>>

store_vars == <<jobs_db>>
channel_vars == <<active_connections, ws_state, ws_job, received>>
scraper_vars == <<attempt, result, ret, self_browser, self_context>>

\* A ScrapingResult: success, error_message and the attributes it defines.
NoResult == [success |-> FALSE, error_message |-> None, fields |-> {}]
_create_error_result(msg) ==
    [success |-> FALSE, error_message |-> msg, fields |-> ScrapingResultFields]
SuccessResult(fields) ==
    [success |-> TRUE, error_message |-> None, fields |-> fields]

\* Mutant of CloneJob: the record is created as already started.
CloneJob_started(u) ==
    [status |-> SCRAPING, url |-> u, progress |-> 10, completed_at |-> FALSE,
     error_message |-> None, result_data |-> <<>>]

\* CloneJob(job_id, status=PENDING, url, progress=0, created_at)
CloneJob(u) ==
    [status |-> PENDING, url |-> u, progress |-> 0, completed_at |-> FALSE,
     error_message |-> None, result_data |-> <<>>]

\* self.browser / self.context: no attribute yet, None, or a live handle.
Unset == -1
NoHandle == 0
Handle(j) == j

Init ==
    /\ jobs_db = <<>>
    /\ active_connections = <<>>
    /\ ws_state = [w \in WsIds |-> "idle"]
    /\ ws_job = [w \in WsIds |-> 0]
    /\ received = [w \in WsIds |-> <<>>]
    /\ pc = [j \in JobIds |-> "unborn"]
    /\ task_url = [j \in JobIds |-> ""]
    /\ exc = [j \in JobIds |-> None]
    /\ attempt = [j \in JobIds |-> 0]
    /\ result = [j \in JobIds |-> NoResult]
    /\ ret = [j \in JobIds |-> NoResult]
    /\ scraping_result = [j \in JobIds |-> NoResult]
    /\ generated_html = [j \in JobIds |-> ""]
    /\ self_browser = Unset
    /\ self_context = Unset
    /\ result_fields \in {ScrapingResultFields, EnhancedResultFields}

\* ------------------------------------------------------- progress channel
\* Mutant of SendOutcomes: a publish without a registered sink raises (the
\* registry is indexed instead of asked with "in").
SendOutcomes_nosinkraises(j) ==
    IF j \notin DOMAIN active_connections THEN {"raise"}
    ELSE IF ws_state[active_connections[j]] = "open" THEN {"delivered"}
    ELSE {"raise", "dropped"}

\* What ws.send_json does for the sink registered for job j: nothing is sent
\* without a sink; an open socket is delivered the event; a socket whose peer
\* is gone raises, or swallows the frame.
SendOutcomes(j) ==
    IF j \notin DOMAIN active_connections THEN {"noop"}
    ELSE IF ws_state[active_connections[j]] = "open" THEN {"delivered"}
    ELSE {"raise", "dropped"}

\* Mutant of send_update: the event goes to every open socket that was
\* attached for the job, not only to the registered one.
send_update_fanout(j, data, o) ==
    received' = IF o = "delivered"
                THEN [w \in WsIds |->
                        IF ws_job[w] = j /\ ws_state[w] = "open"
                        THEN Append(received[w], data)
                        ELSE received[w]]
                ELSE received

\* ConnectionManager.send_update, with the outcome o of send_json.
send_update(j, data, o) ==
    received' = IF o = "delivered"
                THEN [received EXCEPT ![active_connections[j]] = Append(@, data)]
                ELSE received

Event(job) ==
    [status |-> job.status, progress |-> job.progress, error_message |-> None]
\* Mutant of ErrorEvent: the failure event is sent without the message.
ErrorEvent_nomessage(job) ==
    [status |-> job.status, progress |-> job.progress, error_message |-> None]

ErrorEvent(job) ==
    [status |-> job.status, progress |-> job.progress,
     error_message |-> job.error_message]

\* ------------------------------------------------------------ API surface
\* What POST /api/clone answers for the job it has stored under job_id j.
CloneResponse(j) == [job_id |-> j, status |-> PENDING]

\* POST /api/clone: uuid4 gives an identifier no job has had; the record is
\* stored and process_clone_job is added as a background task.
clone_url(u) ==
    /\ \E j \in JobIds :
        /\ pc[j] = "unborn"
        /\ \A k \in JobIds : k < j => pc[k] # "unborn"
        /\ jobs_db' = (j :> CloneJob(u)) @@ jobs_db
        /\ pc' = [pc EXCEPT ![j] = "wait"]
        /\ task_url' = [task_url EXCEPT ![j] = u]
    /\ UNCHANGED <<channel_vars, exc, scraper_vars, scraping_result, generated_html,
                   result_fields>>

\* The status code DELETE /api/clone/{job_id} answers with.
delete_clone_job_code(j) == IF j \notin DOMAIN jobs_db THEN 404 ELSE 200

\* Mutant of delete_clone_job: the whole store is emptied.
delete_clone_job_clear(j) ==
    /\ j \in DOMAIN jobs_db
    /\ jobs_db' = <<>>
    /\ UNCHANGED <<channel_vars, pc, task_url, exc, scraper_vars, scraping_result,
                   generated_html, result_fields>>

\* DELETE /api/clone/{job_id}: 404 for an unknown id (no state change),
\* else the record is removed. The running task is not told.
delete_clone_job(j) ==
    /\ j \in DOMAIN jobs_db
    /\ jobs_db' = [k \in DOMAIN jobs_db \ {j} |-> jobs_db[k]]
    /\ UNCHANGED <<channel_vars, pc, task_url, exc, scraper_vars, scraping_result,
                   generated_html, result_fields>>

\* GET /api/clone/{job_id}/result: the response for the current store.
get_clone_result(j) ==
    IF j \notin DOMAIN jobs_db THEN [code |-> 404, original_url |-> None]
    ELSE IF jobs_db[j].status # COMPLETED THEN [code |-> 400, original_url |-> None]
    ELSE IF jobs_db[j].result_data = <<>> THEN [code |-> 500, original_url |-> None]
    ELSE [code |-> 200, original_url |-> jobs_db[j].result_data[1].original_url]

\* websocket_endpoint up to its first receive_text: manager.connect accepts
\* the socket and registers it as the sink of job j, replacing any other.
connect(w, j) ==
    /\ ws_state[w] = "idle"
    /\ ws_state' = [ws_state EXCEPT ![w] = "open"]
    /\ ws_job' = [ws_job EXCEPT ![w] = j]
    /\ active_connections' = (j :> w) @@ active_connections
    /\ UNCHANGED <<store_vars, received, pc, task_url, exc, scraper_vars,
                   scraping_result, generated_html, result_fields>>

\* The client goes away: receive_text of the endpoint will raise, and a
\* send_json on the socket no longer reaches anyone.
client_close(w) ==
    /\ ws_state[w] = "open"
    /\ ws_state' = [ws_state EXCEPT ![w] = "closed"]
    /\ UNCHANGED <<store_vars, active_connections, ws_job, received, pc, task_url,
                   exc, scraper_vars, scraping_result, generated_html, result_fields>>

\* websocket_endpoint's except/finally: manager.disconnect(job_id) deletes
\* whatever sink is registered under the endpoint's job_id. The endpoint
\* returns and the socket, with what its client had read, is gone.
disconnect(w) ==
    /\ ws_state[w] = "closed"
    /\ ws_state' = [ws_state EXCEPT ![w] = "done"]
    /\ active_connections' =
         [k \in DOMAIN active_connections \ {ws_job[w]} |-> active_connections[k]]
    /\ received' = [received EXCEPT ![w] = <<>>]
    /\ ws_job' = [ws_job EXCEPT ![w] = 0]
    /\ UNCHANGED <<store_vars, pc, task_url, exc, scraper_vars,
                   scraping_result, generated_html, result_fields>>

\* ------------------------------------------------------ process_clone_job
\* An exception raised in the try block: control goes to the except clause.
Raise(j, msg) ==
    /\ pc' = [pc EXCEPT ![j] = "except"]
    /\ exc' = [exc EXCEPT ![j] = msg]

\* The task's frame is gone once the coroutine has returned ("done") or an
\* exception has left it ("crashed"): its locals no longer exist.
FrameAfter(j) ==
    /\ scraping_result' = IF pc'[j] \in {"done", "crashed"}
                          THEN [scraping_result EXCEPT ![j] = NoResult]
                          ELSE scraping_result
    /\ generated_html' = IF pc'[j] \in {"done", "crashed"}
                         THEN [generated_html EXCEPT ![j] = ""]
                         ELSE generated_html

\* await manager.send_update(job_id, {...}) at the end of a stretch: the
\* event is handed to the sink; next is where the task continues when
\* send_json did not raise.
Publish(j, data, next) ==
    \E o \in SendOutcomes(j) :
        /\ send_update(j, data, o)
        /\ IF o = "raise"
           THEN Raise(j, SendErrorMsg)
           ELSE /\ pc' = [pc EXCEPT ![j] = next]
                /\ UNCHANGED exc

\* Mutant of Transition: the progress written counts down instead of up.
Transition_countdown(j, st, prog, next) ==
    IF j \notin DOMAIN jobs_db
    THEN /\ Raise(j, KeyErrorMsg)
         /\ UNCHANGED <<jobs_db, received>>
    ELSE /\ jobs_db' = [jobs_db EXCEPT ![j].status = st, ![j].progress = 100 - prog]
         /\ Publish(j, Event(jobs_db'[j]), next)

\* jobs_db[job_id].status = st; jobs_db[job_id].progress = prog; then the
\* publish of the stored status and progress. A KeyError when the record is
\* gone.
Transition(j, st, prog, next) ==
    IF j \notin DOMAIN jobs_db
    THEN /\ Raise(j, KeyErrorMsg)
         /\ UNCHANGED <<jobs_db, received>>
    ELSE /\ jobs_db' = [jobs_db EXCEPT ![j].status = st, ![j].progress = prog]
         /\ Publish(j, Event(jobs_db'[j]), next)

\* Mutant of StartScraping: the task does not wait for a subscriber.
StartScraping_nowait(j) ==
    /\ pc[j] = "wait"
    /\ Transition(j, SCRAPING, 10, "sw_loop")
    /\ UNCHANGED <<active_connections, ws_state, ws_job, task_url, scraper_vars,
                   scraping_result, generated_html, result_fields>>

\* Lines 153-165: the wait for a subscriber ends, the job enters scraping and
\* scrape_website is called.
StartScraping(j) ==
    /\ pc[j] = "wait"
    /\ j \in DOMAIN active_connections
    /\ Transition(j, SCRAPING, 10, "sw_loop")
    /\ UNCHANGED <<active_connections, ws_state, ws_job, task_url, scraper_vars,
                   scraping_result, generated_html, result_fields>>

\* --------------------------------------------- WebScrape.scrape_website
\* Top of the for loop, up to the await of _initialize_browser: after the last
\* attempt the "Max retries exceeded" result is returned; an invalid URL
\* returns its error result through the finally clause; else the browser is
\* initialised: ok is whether _initialize_browser returned, at is how far it
\* got when it raised ("start": before self.browser was assigned, "context":
\* after).
SwAttempt(j) ==
    /\ pc[j] = "sw_loop"
    /\ IF attempt[j] = max_retries
       THEN /\ scraping_result' =
                 [scraping_result EXCEPT ![j] = _create_error_result("Max retries exceeded")]
            /\ pc' = [pc EXCEPT ![j] = "after_scrape"]
            /\ attempt' = [attempt EXCEPT ![j] = 0]
            /\ result' = [result EXCEPT ![j] = NoResult]
            /\ UNCHANGED <<ret, exc, self_browser, self_context>>
       ELSE IF ~_is_valid_url(task_url[j])
       THEN /\ ret' = [ret EXCEPT ![j] = _create_error_result("not valid")]
            /\ pc' = [pc EXCEPT ![j] = "sw_finally"]
            /\ UNCHANGED <<attempt, result, exc, scraping_result, self_browser,
                           self_context>>
       ELSE \E at \in {"start", "context", "ok"} :
            /\ self_browser' = IF at = "start" THEN self_browser
                               ELSE Handle(j)
            /\ self_context' = IF at = "ok" THEN Handle(j)
                               ELSE self_context
            /\ IF at = "ok"
               THEN /\ pc' = [pc EXCEPT ![j] = "sw_perform"]
                    /\ UNCHANGED <<exc, ret>>
               ELSE \* except Exception as e
                    /\ UNCHANGED exc
                    /\ IF attempt[j] = max_retries - 1
                       THEN /\ \E msg \in InitErrorMsgs :
                                 ret' = [ret EXCEPT ![j] = _create_error_result(msg)]
                            /\ pc' = [pc EXCEPT ![j] = "sw_finally"]
                       ELSE /\ pc' = [pc EXCEPT ![j] = "sw_sleep"]
                            /\ UNCHANGED ret
            /\ UNCHANGED <<attempt, result, scraping_result>>
    /\ UNCHANGED <<store_vars, channel_vars, task_url, generated_html, result_fields>>

\* await asyncio.sleep((2 ** attempt) + jitter) in the except clause.
SwBackoff(j) ==
    /\ pc[j] = "sw_sleep"
    /\ pc' = [pc EXCEPT ![j] = "sw_finally"]
    /\ UNCHANGED <<store_vars, channel_vars, task_url, exc, scraper_vars,
                   scraping_result, generated_html, result_fields>>

\* _perform_scraping never raises: without a context it returns the error
\* result of its RuntimeError, else the page loads (ok) or an exception of
\* the page work becomes an error result.
_perform_scraping(ok) ==
    IF self_context \in {Unset, NoHandle} THEN _create_error_result(NoContextMsg)
    ELSE IF ok THEN SuccessResult(result_fields)
    ELSE _create_error_result(PerformErrorMsg)

\* Mutant of SwPerform: the result is returned whether it succeeded or not.
SwPerform_returnsfailure(j) ==
    /\ pc[j] = "sw_perform"
    /\ \E ok \in (IF self_context \in {Unset, NoHandle} THEN {FALSE} ELSE BOOLEAN) :
        /\ result' = [result EXCEPT ![j] = _perform_scraping(ok)]
        /\ ret' = [ret EXCEPT ![j] = result'[j]]
    /\ pc' = [pc EXCEPT ![j] = "sw_finally"]
    /\ UNCHANGED <<store_vars, channel_vars, task_url, exc, attempt, scraping_result,
                   generated_html, self_browser, self_context, result_fields>>

\* result = await self._perform_scraping(url); if result.success: return
\* result. A failed result is kept in the local and the loop goes on.
SwPerform(j) ==
    /\ pc[j] = "sw_perform"
    /\ \E ok \in (IF self_context \in {Unset, NoHandle} THEN {FALSE} ELSE BOOLEAN) :
        /\ result' = [result EXCEPT ![j] = _perform_scraping(ok)]
        /\ ret' = [ret EXCEPT ![j] = IF result'[j].success THEN result'[j] ELSE NoResult]
    /\ pc' = [pc EXCEPT ![j] = "sw_finally"]
    /\ UNCHANGED <<store_vars, channel_vars, task_url, exc, attempt, scraping_result,
                   generated_html, self_browser, self_context, result_fields>>

\* What the two close() calls of the cleanup do: both return, or one raises.
CloseOutcomes == {"closed", "context_raises", "browser_raises"}

\* _cleanup_browser: self.context is tested first, and a missing attribute
\* raises into the except clause of the cleanup, which only logs, as does a
\* close() that raises: what was not yet closed and set to None stays.
_cleanup_browser(c) ==
    IF self_context = Unset \/ (self_context # NoHandle /\ c = "context_raises")
    THEN UNCHANGED <<self_browser, self_context>>
    ELSE /\ self_context' = NoHandle
         /\ self_browser' = IF self_browser = Unset \/ c = "browser_raises"
                            THEN self_browser
                            ELSE NoHandle

\* Mutant of SwFinally: the loop retries without counting its attempts.
SwFinally_uncounted(j, c) ==
    /\ pc[j] = "sw_finally"
    /\ _cleanup_browser(c)
    /\ IF ret[j] # NoResult
       THEN /\ scraping_result' = [scraping_result EXCEPT ![j] = ret[j]]
            /\ ret' = [ret EXCEPT ![j] = NoResult]
            /\ result' = [result EXCEPT ![j] = NoResult]
            /\ attempt' = [attempt EXCEPT ![j] = 0]
            /\ pc' = [pc EXCEPT ![j] = "after_scrape"]
       ELSE /\ pc' = [pc EXCEPT ![j] = "sw_loop"]
            /\ UNCHANGED <<scraping_result, ret, result, attempt>>
    /\ UNCHANGED <<store_vars, channel_vars, task_url, exc, generated_html, result_fields>>

\* finally: await self._cleanup_browser(), with the outcome c of its close()
\* calls, then the pending return, or the next iteration of the loop.
SwFinally(j, c) ==
    /\ pc[j] = "sw_finally"
    /\ _cleanup_browser(c)
    /\ IF ret[j] # NoResult
       THEN /\ scraping_result' = [scraping_result EXCEPT ![j] = ret[j]]
            /\ ret' = [ret EXCEPT ![j] = NoResult]
            /\ result' = [result EXCEPT ![j] = NoResult]
            /\ attempt' = [attempt EXCEPT ![j] = 0]
            /\ pc' = [pc EXCEPT ![j] = "after_scrape"]
       ELSE /\ attempt' = [attempt EXCEPT ![j] = attempt[j] + 1]
            /\ pc' = [pc EXCEPT ![j] = "sw_loop"]
            /\ UNCHANGED <<scraping_result, ret, result>>
    /\ UNCHANGED <<store_vars, channel_vars, task_url, exc, generated_html, result_fields>>

\* ------------------------------------- process_clone_job, after the scrape
\* Lines 170-196: a failed scrape stores failed/0/error_message, publishes
\* and returns; a successful one enters processing.
AfterScrape(j) ==
    /\ pc[j] = "after_scrape"
    /\ IF ~scraping_result[j].success
       THEN IF j \notin DOMAIN jobs_db
            THEN /\ Raise(j, KeyErrorMsg)
                 /\ UNCHANGED <<jobs_db, received>>
            ELSE /\ jobs_db' = [jobs_db EXCEPT
                        ![j].status = FAILED,
                        ![j].progress = 0,
                        ![j].error_message = scraping_result[j].error_message]
                 /\ Publish(j, ErrorEvent(jobs_db'[j]), "done")
       ELSE Transition(j, PROCESSING, 50, "process")
    /\ FrameAfter(j)
    /\ UNCHANGED <<active_connections, ws_state, ws_job, task_url, scraper_vars,
                   result_fields>>

\* process_scraping_data after its sleep, then lines 202-211: reading an
\* attribute the result does not define raises AttributeError; else the job
\* enters generating.
Process(j) ==
    /\ pc[j] = "process"
    /\ IF ~(ProcessReadFields \subseteq scraping_result[j].fields)
       THEN /\ Raise(j, AttributeErrorMsg)
            /\ UNCHANGED <<jobs_db, received>>
       ELSE Transition(j, GENERATING, 70, "generate")
    /\ UNCHANGED <<active_connections, ws_state, ws_job, task_url, scraper_vars,
                   scraping_result, generated_html, result_fields>>

\* Mutant of generate_html_with_llm: the except clause returns no HTML
\* instead of the fallback template.
generate_html_with_llm_nofallback(outcome) ==
    CASE outcome = "content" -> LlmHtml
      [] outcome = "no_content" -> ""
      [] outcome = "raise" -> ""

\* generate_html_with_llm: the model's answer cleaned up, "" when the answer
\* has no content, the fallback template when the call raises.
generate_html_with_llm(outcome) ==
    CASE outcome = "content" -> LlmHtml
      [] outcome = "no_content" -> ""
      [] outcome = "raise" -> FallbackHtml

\* What the chat completion call does: an answer with content, an answer
\* without, or an exception.
LlmOutcomes == {"content", "no_content", "raise"}

\* Lines 214-226: the generation (no suspension inside), with the outcome of
\* the completion call; then the job is stored completed/100 and the event
\* published. The HTML is kept in the task's frame until the result is
\* assembled.
Generate(j, outcome) ==
    /\ pc[j] = "generate"
    /\ generated_html' = [generated_html EXCEPT ![j] = generate_html_with_llm(outcome)]
    /\ Transition(j, COMPLETED, 100, "assemble")
    /\ UNCHANGED <<active_connections, ws_state, ws_job, task_url, scraper_vars,
                   scraping_result, result_fields>>

\* Lines 228-249: completed_at is written, then result_data is built from the
\* url, the HTML and the scraping result and written.
Assemble(j) ==
    /\ pc[j] = "assemble"
    /\ IF j \notin DOMAIN jobs_db
       THEN /\ Raise(j, KeyErrorMsg)
            /\ UNCHANGED jobs_db
       ELSE IF ~(AssemblyReadFields \subseteq scraping_result[j].fields)
       THEN /\ jobs_db' = [jobs_db EXCEPT ![j].completed_at = TRUE]
            /\ Raise(j, AttributeErrorMsg)
       ELSE /\ jobs_db' = [jobs_db EXCEPT
                   ![j].completed_at = TRUE,
                   ![j].result_data =
                       <<[original_url |-> task_url[j],
                          generated_html |-> generated_html[j]]>>]
            /\ pc' = [pc EXCEPT ![j] = "done"]
            /\ UNCHANGED exc
    /\ FrameAfter(j)
    /\ UNCHANGED <<channel_vars, task_url, scraper_vars, result_fields>>

\* Lines 251-265, the except clause: failed/0/str(e)/completed_at are stored
\* and the event published. A KeyError on the missing record, or send_json
\* raising, leaves the task through the handler.
Except(j) ==
    /\ pc[j] = "except"
    /\ IF j \notin DOMAIN jobs_db
       THEN /\ pc' = [pc EXCEPT ![j] = "crashed"]
            /\ UNCHANGED <<jobs_db, received>>
       ELSE /\ jobs_db' = [jobs_db EXCEPT
                   ![j].status = FAILED,
                   ![j].progress = 0,
                   ![j].error_message = exc[j],
                   ![j].completed_at = TRUE]
            /\ \E o \in SendOutcomes(j) :
                 /\ send_update(j, ErrorEvent(jobs_db'[j]), o)
                 /\ pc' = [pc EXCEPT ![j] = IF o = "raise" THEN "crashed" ELSE "done"]
    /\ exc' = [exc EXCEPT ![j] = None]
    /\ FrameAfter(j)
    /\ UNCHANGED <<active_connections, ws_state, ws_job, task_url, scraper_vars,
                   result_fields>>

\* ------------------------------------------------------------ the system
\* Any number of jobs up to MaxJobs, side by side, with a browser whose
\* close() calls return.
Next ==
    \/ \E u \in Urls : clone_url(u)
    \/ \E j \in JobIds : delete_clone_job(j)
    \/ \E w \in WsIds, j \in JobIds : connect(w, j)
    \/ \E w \in WsIds : client_close(w)
    \/ \E w \in WsIds : disconnect(w)
    \/ \E j \in JobIds : StartScraping(j)
    \/ \E j \in JobIds : SwAttempt(j)
    \/ \E j \in JobIds : SwBackoff(j)
    \/ \E j \in JobIds : SwPerform(j)
    \/ \E j \in JobIds : SwFinally(j, "closed")
    \/ \E j \in JobIds : AfterScrape(j)
    \/ \E j \in JobIds : Process(j)
    \/ \E j \in JobIds, outcome \in LlmOutcomes : Generate(j, outcome)
    \/ \E j \in JobIds : Assemble(j)
    \/ \E j \in JobIds : Except(j)

Spec == Init /\ [][Next]_vars

\* The steps of job j's process_clone_job task, scrape_website included, its
\* cleanup with every outcome of the close() calls.
TaskStep(j) ==
    \/ StartScraping(j)
    \/ SwAttempt(j)
    \/ SwBackoff(j)
    \/ SwPerform(j)
    \/ \E c \in CloseOutcomes : SwFinally(j, c)
    \/ AfterScrape(j)
    \/ Process(j)
    \/ \E outcome \in LlmOutcomes : Generate(j, outcome)
    \/ Assemble(j)
    \/ Except(j)

\* The system serving MaxLiveJobs submissions.
LiveNext ==
    \/ \E u \in Urls :
          /\ Cardinality({j \in JobIds : pc[j] # "unborn"}) < MaxLiveJobs
          /\ clone_url(u)
    \/ \E j \in JobIds : delete_clone_job(j)
    \/ \E w \in WsIds, j \in JobIds : connect(w, j)
    \/ \E w \in WsIds : client_close(w)
    \/ \E w \in WsIds : disconnect(w)
    \/ \E j \in JobIds : TaskStep(j)

\* The event loop runs every coroutine that is ready: a task whose awaited
\* sleep or call has returned goes on, and the endpoint of a socket whose
\* client is gone gets its WebSocketDisconnect. Clients are promised nothing.
FairSpec ==
    /\ Init /\ [][LiveNext]_vars
    /\ \A j \in JobIds : WF_vars(TaskStep(j))
    /\ \A w \in WsIds : WF_vars(disconnect(w))

\* ------------------------------------------------------------ properties
Terminal == {COMPLETED, FAILED}
Alive(j) == j \in DOMAIN jobs_db /\ j \in DOMAIN jobs_db'
Ev(st, prog) == [status |-> st, progress |-> prog, error_message |-> None]

C3_CompletedAtIffTerminal ==
    \A j \in DOMAIN jobs_db :
        jobs_db[j].completed_at <=> (jobs_db[j].status \in Terminal)

\* C4: whenever a subscriber is delivered an event, the store already holds
\* the committed state of that event: its status and progress, and for a
\* terminal event completed_at and the result (completed) or the error
\* message (failed).
C4_StoreThenPublish ==
    [][\A w \in WsIds :
         Len(received'[w]) = Len(received[w]) + 1 =>
            LET e == received'[w][Len(received'[w])]
                j == ws_job[w]
            IN /\ j \in DOMAIN jobs_db'
               /\ jobs_db'[j].status = e.status
               /\ jobs_db'[j].progress = e.progress
               /\ e.status = COMPLETED =>
                    jobs_db'[j].completed_at /\ jobs_db'[j].result_data # <<>>
               /\ e.status = FAILED =>
                    jobs_db'[j].completed_at
                    /\ jobs_db'[j].error_message = e.error_message]_vars

\* C5: a stored status changes only along pending -> scraping -> processing
\* -> generating -> completed with progress 10, 50, 70, 100 on entry, or
\* from a non-terminal status to failed with progress 0.
C5_Chain ==
    {<<PENDING, SCRAPING, 10>>, <<SCRAPING, PROCESSING, 50>>,
     <<PROCESSING, GENERATING, 70>>, <<GENERATING, COMPLETED, 100>>}
C6_MonotonicProgress ==
    [][\A j \in JobIds :
         /\ Alive(j) =>
              /\ (jobs_db[j].status \notin Terminal /\ jobs_db'[j].status \notin Terminal)
                    => jobs_db'[j].progress >= jobs_db[j].progress
              /\ jobs_db'[j].progress < jobs_db[j].progress
                    => /\ jobs_db[j].status # FAILED
                       /\ jobs_db'[j].status = FAILED
                       /\ jobs_db'[j].progress = 0
              /\ (jobs_db[j].status # FAILED /\ jobs_db'[j].status = FAILED)
                    => jobs_db'[j].progress = 0
              /\ jobs_db[j].status = FAILED
                    => jobs_db'[j].status = FAILED /\ jobs_db'[j].progress = 0
         /\ (pc[j] # "unborn" /\ j \notin DOMAIN jobs_db) => j \notin DOMAIN jobs_db']_vars

\* C6 witness: a job that went through processing (progress 50) has entered
\* failed with progress 0, as its subscriber saw.
C6_Witness ==
    \E j \in DOMAIN jobs_db, w \in WsIds :
        /\ jobs_db[j].status = FAILED
        /\ jobs_db[j].progress = 0
        /\ ws_job[w] = j
        /\ Len(received[w]) = 3
        /\ received[w][2] = Ev(PROCESSING, 50)
        /\ received[w][3].status = FAILED

\* C7: while a job's task waits for a subscriber the job stays pending with
\* progress 0 and nothing has been published for it; the task leaves the wait
\* only in a step that starts with a sink registered for the job, and that
\* step is the one that takes the status from pending to scraping.
C7_WaitingState ==
    \A j \in JobIds : pc[j] = "wait" =>
        /\ j \in DOMAIN jobs_db =>
              jobs_db[j].status = PENDING /\ jobs_db[j].progress = 0
        /\ \A w \in WsIds : ws_job[w] = j => received[w] = <<>>
C7_GateStep ==
    \A j \in JobIds :
        /\ (Alive(j) /\ jobs_db[j].status = PENDING /\ jobs_db'[j].status # PENDING)
              => /\ j \in DOMAIN active_connections
                 /\ j \in DOMAIN active_connections'
                 /\ jobs_db'[j].status = SCRAPING
        /\ (pc[j] = "wait" /\ j \notin DOMAIN active_connections) => pc'[j] = "wait"
        /\ (pc[j] = "wait" /\ pc'[j] # "wait") => j \in DOMAIN active_connections
C7_SubscriberGate == []C7_WaitingState /\ [][C7_GateStep]_vars

\* C7 witness: a job has just entered scraping, with a sink registered that
\* was delivered the (scraping, 10) event as its first event.
C7_Witness ==
    \E j \in DOMAIN jobs_db :
        /\ jobs_db[j].status = SCRAPING
        /\ pc[j] = "sw_loop"
        /\ j \in DOMAIN active_connections
        /\ received[active_connections[j]] = <<Ev(SCRAPING, 10)>>

\* C8: a subscriber that was attached when the job left pending and is still
\* its open, registered sink when the task has ended, for a job whose scrape
\* succeeded (the subscriber saw processing) and whose record was not
\* deleted, has observed exactly (scraping,10), (processing,50),
\* (generating,70), (completed,100), and the result query returns the
\* submitted URL.
C8_HappyPath ==
    \A j \in DOMAIN jobs_db, w \in WsIds :
        (/\ pc[j] \in {"done", "crashed"}
         /\ j \in DOMAIN active_connections
         /\ active_connections[j] = w
         /\ ws_state[w] = "open"
         /\ Len(received[w]) >= 2
         /\ received[w][1] = Ev(SCRAPING, 10)
         /\ received[w][2] = Ev(PROCESSING, 50))
        => /\ received[w] = <<Ev(SCRAPING, 10), Ev(PROCESSING, 50),
                              Ev(GENERATING, 70), Ev(COMPLETED, 100)>>
           /\ get_clone_result(j).code = 200
           /\ get_clone_result(j).original_url = jobs_db[j].url

\* C9: no exception ever leaves the process_clone_job task.
C9_NothingPropagates == \A j \in JobIds : pc[j] # "crashed"

\* C10: once a job's record is deleted, the task neither recreates it nor
\* faults on the missing record (no KeyError is raised, none leaves the task).
C10_DeletedIsNoOp ==
    [][\A j \in JobIds :
         (pc[j] # "unborn" /\ j \notin DOMAIN jobs_db) =>
            /\ j \notin DOMAIN jobs_db'
            /\ exc'[j] # KeyErrorMsg
            /\ pc'[j] # "crashed"]_vars

\* C11: a job submitted with a URL that is not valid never has the stored
\* status scraping; once its task has ended it is failed with progress 0 and
\* a non-empty error message.
C11_InvalidUrlFailsFast ==
    \A j \in DOMAIN jobs_db :
        ~_is_valid_url(jobs_db[j].url) =>
            /\ jobs_db[j].status # SCRAPING
            /\ pc[j] \in {"done", "crashed"} =>
                  /\ jobs_db[j].status = FAILED
                  /\ jobs_db[j].progress = 0
                  /\ jobs_db[j].error_message \notin {None, ""}

\* C12: when a scrape of a valid URL is given up after max_retries failed
\* attempts, the result scrape_website returns carries the message of the
\* last failed attempt (the exception of the browser initialisation, or the
\* error result _perform_scraping returned), and the job then becomes failed
\* with progress 0 and exactly that message.
C12_ExhaustionKeepsLastMessage ==
    [][\A j \in JobIds :
         /\ (/\ pc[j] \in {"sw_loop", "sw_finally"}
             /\ pc'[j] = "after_scrape"
             /\ _is_valid_url(task_url[j])
             /\ ~scraping_result'[j].success)
              => scraping_result'[j].error_message =
                    (IF pc[j] = "sw_finally" THEN ret[j].error_message
                     ELSE result[j].error_message)
         /\ (/\ pc[j] = "after_scrape"
             /\ pc'[j] # "after_scrape"
             /\ ~scraping_result[j].success
             /\ Alive(j))
              => /\ jobs_db'[j].status = FAILED
                 /\ jobs_db'[j].progress = 0
                 /\ jobs_db'[j].error_message = scraping_result[j].error_message]_vars

C14_AttachedJobTerminates ==
    \A j \in JobIds :
        (j \in DOMAIN jobs_db /\ j \in DOMAIN active_connections)
            ~> (j \in DOMAIN jobs_db /\ jobs_db[j].status \in Terminal)

\* C14, amended: under fair scheduling, a job whose task has left the wait
\* for a subscriber eventually has status completed or failed, unless its
\* record is deleted.
C14_StartedJobTerminates ==
    \A j \in JobIds :
        (pc[j] \notin {"unborn", "wait"})
            ~> (j \notin DOMAIN jobs_db \/ jobs_db[j].status \in Terminal)

\* C14 witness: a job whose subscriber left after the start has run to a
\* terminal status, its task ended and no sink registered.
C14_Witness ==
    \E j \in DOMAIN jobs_db :
        /\ pc[j] = "done"
        /\ jobs_db[j].status \in Terminal
        /\ j \notin DOMAIN active_connections

\* C15: once a job has left pending and its scraping event has been handed
\* over, what its record ends with does not depend on its subscriber: the
\* failure of a later send is never stored as the job's error, and the
\* outcome a failed scrape has stored (failed, with the scraper's message)
\* is not replaced.
C15_SubscriberDoesNotChangeOutcome ==
    [][\A j \in JobIds :
         Alive(j) =>
            /\ (pc[j] = "except" /\ jobs_db[j].status # SCRAPING)
                  => jobs_db'[j].error_message # SendErrorMsg
            /\ (jobs_db[j].status = FAILED /\ jobs_db[j].error_message # None)
                  => jobs_db'[j].error_message = jobs_db[j].error_message]_vars

\* C16: an attach makes the attaching socket the registered sink of its job,
\* whoever was registered before; an event is delivered only to the socket
\* that is the registered sink of its job at that moment, and to no other
\* socket in the same step; a socket that is no longer the registered sink
\* never becomes it again, so it receives nothing more.
Registered(w) ==
    /\ ws_job[w] \in DOMAIN active_connections
    /\ active_connections[ws_job[w]] = w
C16_AtMostOneSubscriber ==
    [][\A w \in WsIds :
         /\ (ws_state[w] = "idle" /\ ws_state'[w] = "open") => Registered(w)'
         /\ Len(received'[w]) > Len(received[w]) =>
              /\ Registered(w)
              /\ \A v \in WsIds \ {w} : received'[v] = received[v]
         /\ (ws_state[w] # "idle" /\ ~Registered(w)) => ~Registered(w)']_vars

\* C16 witness: two open sockets were attached to the same job; the first was
\* delivered the scraping event, the second replaced it and was delivered a
\* later event that the first did not get.
C16_Witness ==
    \E w1, w2 \in WsIds :
        /\ w1 # w2
        /\ ws_state[w1] = "open" /\ ws_state[w2] = "open"
        /\ ws_job[w1] = ws_job[w2]
        /\ Registered(w2)
        /\ received[w1] = <<Ev(SCRAPING, 10)>>
        /\ Len(received[w2]) >= 1
        /\ received[w2][1].status # SCRAPING

\* C17: a step of a job's task never changes the channel registry, and when
\* no sink is registered for the job its publish delivers nothing to anyone
\* and raises nothing; an attach delivers nothing by itself; and every event
\* a socket is delivered is appended, one at a time, in the very step of its
\* job's task that stored the status and progress it carries: nothing is
\* kept for later and nothing is replayed.
C17_NoSinkNoOpNoReplay ==
    [][/\ \A j \in JobIds :
            (pc[j] # "unborn" /\ pc'[j] # pc[j]) =>
               /\ active_connections' = active_connections
               /\ j \notin DOMAIN active_connections =>
                     /\ received' = received
                     /\ exc'[j] # SendErrorMsg
       /\ \A w \in WsIds :
            /\ (ws_state[w] = "idle" /\ ws_state'[w] = "open") => received'[w] = <<>>
            /\ Len(received'[w]) > Len(received[w]) =>
                 LET e == received'[w][Len(received'[w])]
                     j == ws_job[w]
                 IN /\ received'[w] = Append(received[w], e)
                    /\ pc'[j] # pc[j]
                    /\ j \in DOMAIN jobs_db'
                    /\ e.status = jobs_db'[j].status
                    /\ e.progress = jobs_db'[j].progress
                    /\ jobs_db'[j] # jobs_db[j]]_vars

\* C17 witness: an open, registered socket that was attached after its job
\* had entered scraping: the first event it has is a later one.
C17_Witness ==
    \E w \in WsIds :
        /\ ws_state[w] = "open"
        /\ Registered(w)
        /\ Len(received[w]) >= 1
        /\ received[w][1].status # SCRAPING
        /\ \A v \in WsIds \ {w} : ws_state[v] = "done"

TerminalEvents(w) == {i \in 1..Len(received[w]) : received[w][i].status \in Terminal}
C19_FailureStep ==
    \A j \in JobIds :
        (/\ Alive(j)
         /\ jobs_db'[j] # jobs_db[j]
         /\ jobs_db'[j].status = FAILED
         /\ j \in DOMAIN active_connections
         /\ ws_state[active_connections[j]] = "open")
        => LET w == active_connections[j]
           IN received'[w] =
                 Append(received[w],
                        [status |-> FAILED, progress |-> 0,
                         error_message |-> jobs_db'[j].error_message])
C19_AtMostOneTerminal ==
    \A w \in WsIds :
        /\ Cardinality(TerminalEvents(w)) <= 1
        /\ TerminalEvents(w) \subseteq {Len(received[w])}
C19_OneTerminalEvent == []C19_AtMostOneTerminal /\ [][C19_FailureStep]_vars

\* C19 witness: an open socket holds the events of a job that failed after
\* processing: one terminal event, the last, with the stored message.
C19_Witness ==
    \E w \in WsIds :
        /\ ws_state[w] = "open"
        /\ ws_job[w] \in DOMAIN jobs_db
        /\ Len(received[w]) = 3
        /\ received[w][3] = ErrorEvent(jobs_db[ws_job[w]])
        /\ received[w][3].status = FAILED
        /\ received[w][3].error_message \notin {None, ""}

\* C20: in every state, a stored job whose status is failed has an
\* error_message that is set and is not the empty string.
C20_FailedHasMessage ==
    \A j \in DOMAIN jobs_db :
        jobs_db[j].status = FAILED => jobs_db[j].error_message \notin {None, ""}

\* C21: a step of one job's task never changes another job's record, and
\* while another job is between its browser initialisation and the end of
\* its page work, never changes the browser and context that job is using.
C21_JobsAreIndependent ==
    [][\A j, k \in JobIds :
         (j # k /\ pc[k] # "unborn" /\ pc'[k] # pc[k]) =>
            /\ Alive(j) => jobs_db'[j] = jobs_db[j]
            /\ pc[j] = "sw_perform" =>
                  /\ self_context' = self_context
                  /\ self_browser' = self_browser]_vars

\* C22: scrape_website numbers its attempts 0, 1, ... one by one and starts
\* none beyond max_retries - 1; for a valid URL it returns a failure only
\* from the attempt numbered max_retries - 1 or, all max_retries attempts
\* made, from below the loop: after exactly max_retries attempts.
C22_AttemptStep ==
    \A j \in JobIds :
        /\ attempt'[j] # attempt[j] =>
              \/ /\ attempt'[j] = attempt[j] + 1
                 /\ pc[j] = "sw_finally" /\ pc'[j] = "sw_loop"
              \/ attempt'[j] = 0 /\ pc'[j] = "after_scrape"
        /\ (pc[j] = "sw_loop" /\ pc'[j] \in {"sw_perform", "sw_sleep"})
              => attempt[j] < max_retries
        /\ (/\ pc[j] \in {"sw_loop", "sw_finally"}
            /\ pc'[j] = "after_scrape"
            /\ urlparse(task_url[j]).scheme # "" /\ urlparse(task_url[j]).netloc # ""
            /\ ~scraping_result'[j].success)
              => \/ pc[j] = "sw_finally" /\ attempt[j] = max_retries - 1
                 \/ pc[j] = "sw_loop" /\ attempt[j] = max_retries
C22_ExactlyMaxRetries ==
    /\ [](\A j \in JobIds : attempt[j] \in 0..max_retries)
    /\ [][C22_AttemptStep]_vars

\* C22 witness: the attempts 0, 1 and 2 of a scrape of a valid URL have
\* failed, the last one in the page work, and the loop is over.
C22_Witness ==
    \E j \in JobIds :
        /\ pc[j] = "sw_loop"
        /\ attempt[j] = max_retries
        /\ _is_valid_url(task_url[j])
        /\ result[j].error_message = PerformErrorMsg

\* C23: an attempt that failed and is followed by another attempt is
\* followed by the backoff sleep first, also when it failed by
\* _perform_scraping returning success=false: such an attempt, when it is
\* not the last, goes on into the sleep.
C23_BackoffBeforeRetry ==
    [][\A j \in JobIds :
         (/\ pc[j] = "sw_perform"
          /\ pc'[j] # "sw_perform"
          /\ ~result'[j].success
          /\ attempt[j] < max_retries - 1)
            => pc'[j] = "sw_sleep"]_vars

\* C24: when scrape_website returns, whatever the exit path, neither
\* self.browser nor self.context still holds a browser or a context the call
\* has opened.
C24_ResourcesReleased ==
    [][\A j \in JobIds :
         (pc[j] \in {"sw_loop", "sw_finally"} /\ pc'[j] = "after_scrape")
            => /\ self_browser' # Handle(j)
               /\ self_context' # Handle(j)]_vars

\* C25: a delete of a stored job answers success and removes that record and
\* no other; from then on, in every state, a delete of the same id and a
\* result query for it both answer not-found, and the record never returns.
C25_Deleted(j) == pc[j] # "unborn" /\ j \notin DOMAIN jobs_db
C25_DeleteStep ==
    \A j \in JobIds :
        /\ (j \in DOMAIN jobs_db /\ j \notin DOMAIN jobs_db') =>
              /\ delete_clone_job_code(j) = 200
              /\ DOMAIN jobs_db' = DOMAIN jobs_db \ {j}
              /\ \A k \in DOMAIN jobs_db' : jobs_db'[k] = jobs_db[k]
        /\ C25_Deleted(j) => C25_Deleted(j)'
C25_IdempotentDelete ==
    /\ [](\A j \in JobIds : C25_Deleted(j) =>
             /\ delete_clone_job_code(j) = 404
             /\ get_clone_result(j).code = 404)
    /\ [][C25_DeleteStep]_vars

\* C25 witness: one job has been deleted while another, submitted before the
\* delete or after, is in the store and has made progress.
C25_Witness ==
    \E j, k \in JobIds :
        /\ C25_Deleted(j)
        /\ k \in DOMAIN jobs_db
        /\ jobs_db[k].status # PENDING

\* C26: a step that adds to the store adds exactly one record, under an
\* identifier no job has had, with the submitted url, status pending,
\* progress 0 and completed_at, error_message and result_data unset, and
\* leaves the other records alone; the answer names that identifier with
\* status pending; the step starts the record's task, and a task is started
\* in no other way and never a second time.
C26_SubmitStep ==
    /\ DOMAIN jobs_db' # DOMAIN jobs_db /\ DOMAIN jobs_db \subseteq DOMAIN jobs_db' =>
          \E j \in JobIds :
              /\ DOMAIN jobs_db' = DOMAIN jobs_db \cup {j}
              /\ j \notin DOMAIN jobs_db
              /\ pc[j] = "unborn"
              /\ pc'[j] = "wait"
              /\ \A k \in JobIds \ {j} : pc'[k] = pc[k]
              /\ jobs_db'[j].status = PENDING
              /\ jobs_db'[j].progress = 0
              /\ jobs_db'[j].url = task_url'[j]
              /\ ~jobs_db'[j].completed_at
              /\ jobs_db'[j].error_message = None
              /\ jobs_db'[j].result_data = <<>>
              /\ CloneResponse(j).job_id = j
              /\ CloneResponse(j).status = jobs_db'[j].status
              /\ \A k \in DOMAIN jobs_db : jobs_db'[k] = jobs_db[k]
    /\ \A j \in JobIds :
          /\ pc[j] # "unborn" => pc'[j] # "unborn"
          /\ pc'[j] = "wait" => pc[j] = "wait" \/ (pc[j] = "unborn" /\ j \in DOMAIN jobs_db')
          /\ task_url'[j] # task_url[j] => pc[j] = "unborn"
C26_SubmitCreatesOneJob ==
    /\ [](\A j \in JobIds : pc[j] = "unborn" => j \notin DOMAIN jobs_db)
    /\ [][C26_SubmitStep]_vars

\* C26 witness: two submissions have made two records, the second while the
\* first job's task was already past its wait.
C26_Witness ==
    /\ DOMAIN jobs_db = {1, 2}
    /\ jobs_db[2] = CloneJob(task_url[2])
    /\ pc[2] = "wait"
    /\ pc[1] \notin {"unborn", "wait"}

C28_Lacking(u) == urlparse(u).scheme = "" \/ urlparse(u).netloc = ""
C28_InvalidState ==
    /\ \A u \in UrlShapes : _is_valid_url(u) <=> ~C28_Lacking(u)
    /\ \A j \in JobIds :
          (pc[j] # "unborn" /\ C28_Lacking(task_url[j])) =>
             /\ pc[j] \notin {"sw_sleep", "sw_perform"}
             /\ attempt[j] = 0
             /\ result[j] = NoResult
             /\ pc[j] = "sw_finally" => ret[j] = _create_error_result("not valid")
             /\ pc[j] = "after_scrape" =>
                   scraping_result[j] = _create_error_result("not valid")
C28_InvalidStep ==
    \A j \in JobIds :
        (pc[j] # "unborn" /\ pc'[j] # pc[j] /\ C28_Lacking(task_url[j])) =>
           /\ self_browser' \in {self_browser, NoHandle}
           /\ self_context' \in {self_context, NoHandle}
           /\ pc[j] = "sw_loop" => pc'[j] = "sw_finally"
           /\ pc[j] = "sw_finally" => pc'[j] = "after_scrape"
C28_InvalidUrlNoAttempt == []C28_InvalidState /\ [][C28_InvalidStep]_vars

\* C28 witness: scrape_website has returned the failure of the URL check for
\* "not-a-url" with no browser ever started in the process.
C28_Witness ==
    \E j \in JobIds :
        /\ pc[j] = "after_scrape"
        /\ C28_Lacking(task_url[j])
        /\ scraping_result[j].error_message = "not valid"
        /\ self_browser = Unset
        /\ self_context = Unset

\* C29: every attribute the processing step and the result assembly read is
\* one the ScrapingResult type defines, and the processing step of a job
\* whose record is in the store takes it to generating with progress 70.
C29_ProcessingSucceeds ==
    [][\A j \in JobIds :
         (pc[j] = "process" /\ pc'[j] # "process" /\ Alive(j)) =>
            /\ ProcessReadFields \cup AssemblyReadFields \subseteq scraping_result[j].fields
            /\ jobs_db'[j].status = GENERATING
            /\ jobs_db'[j].progress = 70]_vars

\* C30: when the endpoint of a closed socket deregisters, a socket that is
\* the registered sink of its job then is still the registered sink
\* afterwards.
C30_CloseDetachesOnlyItself ==
    [][\A w, v \in WsIds :
         (/\ w # v
          /\ ws_state[w] = "closed"
          /\ ws_state'[w] = "done"
          /\ Registered(v))
            => Registered(v)']_vars

====
